---- MODULE Spec2Model ----
(***************************************************************************)
(* A model of the Go rules engine of dlgo/goboard_slow.py: GoString,       *)
(* Board (place_stone, _remove_string), Move and GameState (apply_move,    *)
(* is_move_self_capture, does_move_violate_ko, is_valid_move, is_over,      *)
(* legal_moves), together with the driver loop of human_v_bot.py.          *)
(*                                                                         *)
(* Objects are modelled with their identity.  A Board owns a heap of       *)
(* GoString objects (field strings, keyed by object id) and its _grid      *)
(* dictionary maps occupied points to ids, so that one GoString is shared  *)
(* by all the points it covers.  Board objects live in the heap boards and *)
(* GameState objects refer to them by index, so that two GameStates may    *)
(* share one Board object (as after a pass).                               *)
(***************************************************************************)
EXTENDS Integers, Sequences, FiniteSets, TLC

VARIABLES
    boards,     \* heap of Board objects referenced by GameStates
    states,     \* heap of GameState objects; states[i].previous_state < i
    game,       \* the driver's variable game: index into states
    bd,         \* a Board object driven directly through place_stone
    pre,        \* bd as it was before the last place_stone call
    last_call,  \* arguments of the last place_stone call on bd
    made,       \* Move objects constructed so far by Move.__init__
    fatal       \* arguments of a Move construction whose assertion failed

vars == <<boards, states, game, bd, pre, last_call, made, fatal>>

\* ---------------------------------------------------------------- bounds
\* size of the board of a game
NumRows == 2
NumCols == 2
\* size of the board driven directly through place_stone
DirectRows == 2
DirectCols == 3
\* number of apply_move calls in a game
MaxMoves == 6
\* number of apply_move calls in a game whose states are queried
MaxQueried == 3
\* number of Move objects kept in made
MaxMade == 2
\* size of the board of a game played to its end
LiveRows == 1
LiveCols == 3
\* number of apply_move calls in a game played to its end
MaxLive == 21

\* ---------------------------------------------------- gotypes primitives
Players == {"black", "white"}

Other(player) == IF player = "black" THEN "white" ELSE "black"

\* the absent value (Python None) for points, object ids and state refs
NonePoint == <<>>
NoneRef == 0

\* the points of a board
PointsOf(board) == (1..board.num_rows) \X (1..board.num_cols)

\* Point.neighbors(): the four orthogonal coordinates, not bounds-filtered
Neighbors(point) ==
    << <<point[1] - 1, point[2]>>, <<point[1] + 1, point[2]>>,
       <<point[1], point[2] - 1>>, <<point[1], point[2] + 1>> >>

\* orders in which the four neighbours may be visited
NeighborOrders ==
    {o \in [1..4 -> 1..4] : \A i, j \in 1..4 : i # j => o[i] # o[j]}

DefaultOrder == [i \in 1..4 |-> i]

\* the points of S in row-major order
RECURSIVE SortedPoints(_)
SortedPoints(S) ==
    IF S = {} THEN <<>>
    ELSE LET p == CHOOSE q \in S : \A r \in S :
                     q[1] < r[1] \/ (q[1] = r[1] /\ q[2] <= r[2])
         IN  <<p>> \o SortedPoints(S \ {p})

\* ------------------------------------------------------------- GoString
GoString(color, stones, liberties) ==
    [color |-> color, stones |-> stones, liberties |-> liberties]

\* a variant that takes only the other string's stones out of the liberties
merged_with_minus_other_stones(self, go_string) ==
    GoString(self.color, self.stones \cup go_string.stones,
             (self.liberties \cup go_string.liberties) \ go_string.stones)

merged_with(self, go_string) ==
    LET combined_stones == self.stones \cup go_string.stones
    IN  GoString(self.color, combined_stones,
                 (self.liberties \cup go_string.liberties) \ combined_stones)

num_liberties(self) == Cardinality(self.liberties)

\* GoString.__eq__: structural equality
GoStringEq(a, b) ==
    /\ a.color = b.color
    /\ a.stones = b.stones
    /\ a.liberties = b.liberties

\* ---------------------------------------------------------------- Board
\* Board(num_rows, num_cols): empty grid, no GoString allocated
NewBoard(num_rows, num_cols) ==
    [num_rows |-> num_rows, num_cols |-> num_cols,
     grid |-> [p \in {} |-> NoneRef],
     strings |-> [g \in {} |-> GoString("black", {}, {})],
     err |-> "none"]

is_on_grid(board, point) ==
    /\ 1 <= point[1] /\ point[1] <= board.num_rows
    /\ 1 <= point[2] /\ point[2] <= board.num_cols

\* self._grid.get(point): the id of the covering GoString, or None
GridGet(board, point) ==
    IF point \in DOMAIN board.grid THEN board.grid[point] ELSE NoneRef

\* Board.get(point): the colour on the point, "none" when empty
BoardGet(board, point) ==
    IF GridGet(board, point) = NoneRef THEN "none"
    ELSE board.strings[GridGet(board, point)].color

\* a variant that takes two strings of one colour for the same string
InListByColor(board, g, list) ==
    \E i \in 1..Len(list) :
        list[i] = g \/ board.strings[list[i]].color = board.strings[g].color

\* "x in list" on a list of GoString objects: identity or __eq__
InList(board, g, list) ==
    \E i \in 1..Len(list) :
        list[i] = g \/ GoStringEq(board.strings[list[i]], board.strings[g])

\* the neighbour loop of place_stone (lines 122-140), from index i on
RECURSIVE ScanNeighbors(_, _, _, _, _, _)
ScanNeighbors(board, player, point, ord, i, acc) ==
    IF i > 4 THEN acc
    ELSE
      LET neighbor == Neighbors(point)[ord[i]]
          neighbor_string == GridGet(board, neighbor)
          next ==
            IF ~is_on_grid(board, neighbor) THEN acc
            ELSE IF neighbor_string = NoneRef
              THEN [acc EXCEPT !.liberties = @ \cup {neighbor}]
            ELSE IF board.strings[neighbor_string].color = player
              THEN IF InList(board, neighbor_string, acc.same) THEN acc
                   ELSE [acc EXCEPT !.same = Append(@, neighbor_string)]
            ELSE IF InList(board, neighbor_string, acc.opp) THEN acc
                 ELSE [acc EXCEPT !.opp = Append(@, neighbor_string)]
      IN  ScanNeighbors(board, player, point, ord, i + 1, next)

\* a variant that merges the first adjacent string only
MergeFirstOnly(board, new_string, same, i) ==
    IF same = <<>> THEN new_string
    ELSE merged_with(new_string, board.strings[same[1]])

\* the merge loop of place_stone (lines 147-148)
RECURSIVE MergeAll(_, _, _, _)
MergeAll(board, new_string, same, i) ==
    IF i > Len(same) THEN new_string
    ELSE MergeAll(board, merged_with(new_string, board.strings[same[i]]),
                  same, i + 1)

\* The id of the GoString object created by a placement at point.  A live
\* GoString covers the point whose placement created it, and point is
\* empty, so no live GoString of the board has this id.
FreshId(board, point) == (point[1] - 1) * board.num_cols + point[2]

\* a variant that maps only the played point to the new object
WriteStringPlayedPointOnly(board, point, new_string) ==
    [board EXCEPT
       !.grid = [p \in (DOMAIN board.grid) \cup {point} |->
                    IF p = point THEN FreshId(board, point) ELSE board.grid[p]],
       !.strings = [g \in (DOMAIN board.strings) \cup {FreshId(board, point)} |->
                    IF g = FreshId(board, point) THEN new_string
                    ELSE board.strings[g]]]

\* lines 150-151: every stone of new_string is mapped to the new object
WriteString(board, point, new_string) ==
    LET id == FreshId(board, point)
    IN  [board EXCEPT
           !.grid = [p \in (DOMAIN board.grid) \cup new_string.stones |->
                        IF p \in new_string.stones THEN id
                        ELSE board.grid[p]],
           !.strings = [g \in (DOMAIN board.strings) \cup {id} |->
                        IF g = id THEN new_string ELSE board.strings[g]]]

\* a variant that leaves the adjacent opposite strings as they are
RemoveNoLiberties(board, opp, point, i) == board

\* lines 153-154: remove_liberty(point) on each adjacent opposite string;
\* set.remove raises KeyError when the point is not a liberty
RECURSIVE RemoveLiberties(_, _, _, _)
RemoveLiberties(board, opp, point, i) ==
    IF i > Len(opp) \/ board.err # "none" THEN board
    ELSE IF point \notin board.strings[opp[i]].liberties
      THEN [board EXCEPT !.err = "KeyError"]
    ELSE RemoveLiberties(
           [board EXCEPT !.strings[opp[i]].liberties = @ \ {point}],
           opp, point, i + 1)

\* a variant that gives the removed point back to no neighbour
RestoreLibertyNowhere(board, string, point, i) == board

\* lines 171-179: the neighbours of one removed point regain it as liberty
RECURSIVE RestoreLiberty(_, _, _, _)
RestoreLiberty(board, string, point, i) ==
    IF i > 4 THEN board
    ELSE
      LET neighbor_string == GridGet(board, Neighbors(point)[i])
      IN  IF neighbor_string = NoneRef \/ neighbor_string = string
            THEN RestoreLiberty(board, string, point, i + 1)
          ELSE RestoreLiberty(
                 [board EXCEPT
                    !.strings[neighbor_string].liberties = @ \cup {point}],
                 string, point, i + 1)

\* line 181: del self._grid[point]
EraseStone(board, point) ==
    [board EXCEPT
       !.grid = [p \in (DOMAIN board.grid) \ {point} |-> board.grid[p]]]

\* Board._remove_string, over the stones still to be visited
RECURSIVE RemoveStones(_, _, _)
RemoveStones(board, string, todo) ==
    IF todo = <<>> THEN board
    ELSE
      RemoveStones(
        EraseStone(RestoreLiberty(board, string, Head(todo), 1), Head(todo)),
        string, Tail(todo))

\* a variant that erases the stones and restores no liberty
RECURSIVE EraseStones(_, _)
EraseStones(board, todo) ==
    IF todo = <<>> THEN board
    ELSE EraseStones(EraseStone(board, Head(todo)), Tail(todo))

remove_string_restoring_nothing(board, string) ==
    EraseStones(board, SortedPoints(board.strings[string].stones))

remove_string(board, string) ==
    RemoveStones(board, string, SortedPoints(board.strings[string].stones))

\* a variant that removes every adjacent opposite string, whatever its
\* liberties
RECURSIVE CaptureWithoutCounting(_, _, _)
CaptureWithoutCounting(board, opp, i) ==
    IF i > Len(opp) THEN board
    ELSE CaptureWithoutCounting(remove_string(board, opp[i]), opp, i + 1)

\* lines 156-158: capture the adjacent opposite strings left without liberty
RECURSIVE CaptureAll(_, _, _)
CaptureAll(board, opp, i) ==
    IF i > Len(opp) THEN board
    ELSE IF num_liberties(board.strings[opp[i]]) = 0
      THEN CaptureAll(remove_string(board, opp[i]), opp, i + 1)
    ELSE CaptureAll(board, opp, i + 1)

\* on return the local lists die: GoStrings no point maps to are freed
Release(board) ==
    LET live == {board.grid[p] : p \in DOMAIN board.grid}
    IN  [board EXCEPT !.strings = [g \in live |-> board.strings[g]]]

\* lines 156-158 and the return, unless remove_liberty raised
CaptureAndReturn(tightened, opp) ==
    IF tightened.err # "none" THEN Release(tightened)
    ELSE Release(CaptureAll(tightened, opp, 1))

\* a variant that looks for captures before the liberties are reduced
PlaceScannedCaptureFirst(board, player, point, acc) ==
    Release(
      RemoveLiberties(
        CaptureAll(
          WriteString(board, point,
                      MergeAll(board, GoString(player, {point}, acc.liberties),
                               acc.same, 1)),
          acc.opp, 1),
        acc.opp, point, 1))

\* lines 142-158 of place_stone, acc being what the neighbour loop collected
PlaceScanned(board, player, point, acc) ==
    CaptureAndReturn(
      RemoveLiberties(
        WriteString(board, point,
                    MergeAll(board, GoString(player, {point}, acc.liberties),
                             acc.same, 1)),
        acc.opp, point, 1),
      acc.opp)

\* Board.place_stone, visiting the neighbours in the order ord
PlaceStoneOrd(board, player, point, ord) ==
    IF ~is_on_grid(board, point) \/ GridGet(board, point) # NoneRef
      THEN [board EXCEPT !.err = "AssertionError"]
    ELSE PlaceScanned(board, player, point,
           ScanNeighbors(board, player, point, ord, 1,
                         [liberties |-> {}, same |-> <<>>, opp |-> <<>>]))

place_stone(board, player, point) ==
    PlaceStoneOrd(board, player, point, DefaultOrder)

\* Board.__eq__: same dimensions, same keys, GoStrings equal by __eq__
BoardEq(a, b) ==
    /\ a.num_rows = b.num_rows
    /\ a.num_cols = b.num_cols
    /\ DOMAIN a.grid = DOMAIN b.grid
    /\ \A p \in DOMAIN a.grid :
          GoStringEq(a.strings[a.grid[p]], b.strings[b.grid[p]])

\* copy.deepcopy(board): new GoString objects, one per object the grid
\* refers to (sharing is kept), created in row-major order of their first
\* stone; objects the grid does not reach are not copied
DeepCopy(board) ==
    LET live == {board.grid[p] : p \in DOMAIN board.grid}
        first(g) == Head(SortedPoints({p \in DOMAIN board.grid :
                                          board.grid[p] = g}))
        clone(g) == FreshId(board, first(g))
    IN  [board EXCEPT
           !.grid = [p \in DOMAIN board.grid |-> clone(board.grid[p])],
           !.strings = [c \in {clone(g) : g \in live} |->
                          LET g == CHOOSE h \in live : clone(h) = c
                          IN  GoString(board.strings[g].color,
                                       board.strings[g].stones,
                                       board.strings[g].liberties)]]

\* ----------------------------------------------------------------- Move
NoneMove ==
    [point |-> NonePoint, is_play |-> FALSE, is_pass |-> FALSE,
     is_resign |-> FALSE]

Xor(a, b) == a # b

\* Move.__init__: ok is the outcome of the assertion
MoveInit(point, is_pass, is_resign) ==
    [ok |-> Xor(Xor(point # NonePoint, is_pass), is_resign),
     move |-> [point |-> point, is_play |-> (point # NonePoint),
               is_pass |-> is_pass, is_resign |-> is_resign]]

MovePlay(point) == MoveInit(point, FALSE, FALSE).move
MovePassTurn == MoveInit(NonePoint, TRUE, FALSE).move
MoveResign == MoveInit(NonePoint, FALSE, TRUE).move

\* ------------------------------------------------------------ GameState
\* Functions that clone a board take the heap of Board objects hp and
\* return the heap they leave behind, so that a write through an aliased
\* reference shows in the Board objects of published GameStates.
GameState(board, next_player, previous, move) ==
    [board |-> board, next_player |-> next_player,
     previous_state |-> previous, last_move |-> move]

\* a variant without the copy: next_board = self.board
PlaceOnShared(hp, board, player, point) ==
    [heap |-> [hp EXCEPT ![board] = place_stone(hp[board], player, point)],
     ref |-> board]

\* next_board = copy.deepcopy(self.board); next_board.place_stone(...)
CloneAndPlace(hp, board, player, point) ==
    [heap |-> Append(hp, place_stone(DeepCopy(hp[board]), player, point)),
     ref |-> Len(hp) + 1]

\* line 277 after a Play: the GameState built on the placed clone
StateOnClone(sts, self, move, placed) ==
    [heap |-> placed.heap,
     state |-> GameState(placed.ref, Other(sts[self].next_player), self, move),
     err |-> placed.heap[placed.ref].err]

\* GameState.apply_move: the new heap and the new GameState object
apply_move(hp, sts, self, move) ==
    IF move.is_play
      THEN StateOnClone(sts, self, move,
             CloneAndPlace(hp, sts[self].board, sts[self].next_player,
                           move.point))
      ELSE [heap |-> hp,
            state |-> GameState(sts[self].board, Other(sts[self].next_player),
                                self, move),
            err |-> "none"]

\* GameState.new_game
new_game(num_rows, num_cols) ==
    [heap |-> <<NewBoard(num_rows, num_cols)>>,
     state |-> GameState(1, "black", NoneRef, NoneMove)]

\* a local board is dropped on return: the heap keeps its first n objects
Drop(hp, n) == SubSeq(hp, 1, n)

\* a variant that never reports a self-capture
SelfCaptureNever(hp, placed, point) ==
    [heap |-> Drop(placed.heap, Len(hp)), ret |-> FALSE,
     err |-> placed.heap[placed.ref].err]

\* lines 297-298: the liberties of the string now covering the point
SelfCaptureOn(hp, placed, point) ==
    IF placed.heap[placed.ref].err # "none"
      THEN [heap |-> Drop(placed.heap, Len(hp)), ret |-> FALSE,
            err |-> placed.heap[placed.ref].err]
    ELSE [heap |-> Drop(placed.heap, Len(hp)),
          ret |-> num_liberties(
                    placed.heap[placed.ref].strings[
                      GridGet(placed.heap[placed.ref], point)]) = 0,
          err |-> "none"]

\* GameState.is_move_self_capture
is_move_self_capture(hp, sts, self, player, move) ==
    IF ~move.is_play THEN [heap |-> hp, ret |-> FALSE, err |-> "none"]
    ELSE SelfCaptureOn(hp, CloneAndPlace(hp, sts[self].board, player,
                                         move.point),
                       move.point)

\* equality of two situations (next_player, board), boards given by
\* reference: the same object, or equal by Board.__eq__
SituationEq(hp, player_a, board_a, player_b, board_b) ==
    /\ player_a = player_b
    /\ (board_a = board_b \/ BoardEq(hp[board_a], hp[board_b]))

\* the while loop of does_move_violate_ko, from past_state upwards
RECURSIVE KoWalk(_, _, _, _, _)
KoWalk(hp, sts, past_state, next_player, next_board) ==
    IF past_state = NoneRef THEN FALSE
    ELSE IF SituationEq(hp, sts[past_state].next_player,
                        sts[past_state].board, next_player, next_board)
      THEN TRUE
    ELSE KoWalk(hp, sts, sts[past_state].previous_state,
                next_player, next_board)

\* a variant that compares with the preceding situation only
KoOnPrecedingOnly(hp, sts, self, player, placed) ==
    [heap |-> Drop(placed.heap, Len(hp)),
     ret |-> /\ sts[self].previous_state # NoneRef
             /\ SituationEq(placed.heap,
                            sts[sts[self].previous_state].next_player,
                            sts[sts[self].previous_state].board,
                            Other(player), placed.ref),
     err |-> placed.heap[placed.ref].err]

\* the while loop cut short: at most n ancestors are compared
RECURSIVE KoWalkBack(_, _, _, _, _, _)
KoWalkBack(hp, sts, past_state, next_player, next_board, n) ==
    IF past_state = NoneRef \/ n = 0 THEN FALSE
    ELSE IF SituationEq(hp, sts[past_state].next_player,
                        sts[past_state].board, next_player, next_board)
      THEN TRUE
    ELSE KoWalkBack(hp, sts, sts[past_state].previous_state,
                    next_player, next_board, n - 1)

\* a variant that compares with the five preceding situations only
KoOnFiveBack(hp, sts, self, player, placed) ==
    IF placed.heap[placed.ref].err # "none"
      THEN [heap |-> Drop(placed.heap, Len(hp)), ret |-> FALSE,
            err |-> placed.heap[placed.ref].err]
    ELSE [heap |-> Drop(placed.heap, Len(hp)),
          ret |-> KoWalkBack(placed.heap, sts, sts[self].previous_state,
                             Other(player), placed.ref, 5),
          err |-> "none"]

\* lines 312-318: the placed clone compared with the ancestors' situations
KoOn(hp, sts, self, player, placed) ==
    IF placed.heap[placed.ref].err # "none"
      THEN [heap |-> Drop(placed.heap, Len(hp)), ret |-> FALSE,
            err |-> placed.heap[placed.ref].err]
    ELSE [heap |-> Drop(placed.heap, Len(hp)),
          ret |-> KoWalk(placed.heap, sts, sts[self].previous_state,
                         Other(player), placed.ref),
          err |-> "none"]

\* GameState.does_move_violate_ko
does_move_violate_ko(hp, sts, self, player, move) ==
    IF ~move.is_play THEN [heap |-> hp, ret |-> FALSE, err |-> "none"]
    ELSE KoOn(hp, sts, self, player,
              CloneAndPlace(hp, sts[self].board, player, move.point))

\* a variant that ends the game on a single pass
is_over_after_one_pass(sts, self) ==
    IF sts[self].last_move = NoneMove THEN FALSE
    ELSE sts[self].last_move.is_resign \/ sts[self].last_move.is_pass

\* GameState.is_over
is_over(sts, self) ==
    IF sts[self].last_move = NoneMove THEN FALSE
    ELSE IF sts[self].last_move.is_resign THEN TRUE
    ELSE
      LET second_last_move == sts[sts[self].previous_state].last_move
      IN  IF second_last_move = NoneMove THEN FALSE
          ELSE sts[self].last_move.is_pass /\ second_last_move.is_pass

\* line 332: not self.does_move_violate_ko(...)
NotKo(ko) == [heap |-> ko.heap, ret |-> ~ko.ret, err |-> ko.err]

\* a variant that leaves out the ko test
ValidWhateverKo(sts, self, move, sc) ==
    [heap |-> sc.heap, ret |-> ~sc.ret, err |-> sc.err]

\* lines 331-332, sc being what is_move_self_capture returned
ValidUnlessKo(sts, self, move, sc) ==
    IF sc.err # "none" \/ sc.ret
      THEN [heap |-> sc.heap, ret |-> FALSE, err |-> sc.err]
    ELSE NotKo(does_move_violate_ko(sc.heap, sts, self,
                                    sts[self].next_player, move))

\* a variant that does not test that the point is empty
is_valid_move_on_any_point(hp, sts, self, move) ==
    IF is_over(sts, self) THEN [heap |-> hp, ret |-> FALSE, err |-> "none"]
    ELSE IF move.is_pass \/ move.is_resign
      THEN [heap |-> hp, ret |-> TRUE, err |-> "none"]
    ELSE ValidUnlessKo(sts, self, move,
           is_move_self_capture(hp, sts, self, sts[self].next_player, move))

\* GameState.is_valid_move; "and" evaluates its right operand only when
\* the left one is true
is_valid_move(hp, sts, self, move) ==
    IF is_over(sts, self) THEN [heap |-> hp, ret |-> FALSE, err |-> "none"]
    ELSE IF move.is_pass \/ move.is_resign
      THEN [heap |-> hp, ret |-> TRUE, err |-> "none"]
    ELSE IF BoardGet(hp[sts[self].board], move.point) # "none"
      THEN [heap |-> hp, ret |-> FALSE, err |-> "none"]
    ELSE ValidUnlessKo(sts, self, move,
           is_move_self_capture(hp, sts, self, sts[self].next_player, move))

\* the points scanned by legal_moves, row by row
ScanPoints(board) == SortedPoints(PointsOf(board))

\* the double loop of legal_moves over the points still to be tested
RECURSIVE LegalScan(_, _, _, _, _)
RECURSIVE LegalStep(_, _, _, _, _)
LegalScan(hp, sts, self, todo, moves) ==
    IF todo = <<>> THEN [heap |-> hp, ret |-> moves, err |-> "none"]
    ELSE LegalStep(sts, self, todo, moves,
                   is_valid_move(hp, sts, self, MovePlay(Head(todo))))

\* lines 360-361, valid being what is_valid_move returned for Head(todo)
LegalStep(sts, self, todo, moves, valid) ==
    IF valid.err # "none"
      THEN [heap |-> valid.heap, ret |-> moves, err |-> valid.err]
    ELSE LegalScan(valid.heap, sts, self, Tail(todo),
                   IF valid.ret THEN Append(moves, MovePlay(Head(todo)))
                   ELSE moves)

\* lines 363-364, unless the scan raised
AppendPassResign(scan) ==
    IF scan.err # "none" THEN scan
    ELSE [scan EXCEPT !.ret = Append(Append(@, MovePassTurn), MoveResign)]

\* GameState.legal_moves
legal_moves(hp, sts, self) ==
    AppendPassResign(
      LegalScan(hp, sts, self, ScanPoints(hp[sts[self].board]), <<>>))

\* a variant that names the side that resigned
winner_is_the_resigner(sts, self, game_result) ==
    IF ~is_over(sts, self) THEN [ret |-> "none", consulted |-> FALSE]
    ELSE IF sts[self].last_move.is_resign
      THEN [ret |-> Other(sts[self].next_player), consulted |-> FALSE]
    ELSE [ret |-> game_result, consulted |-> TRUE]

\* GameState.winner; game_result is the winner compute_game_result would
\* report, consulted tells whether compute_game_result was called
winner(sts, self, game_result) ==
    IF ~is_over(sts, self) THEN [ret |-> "none", consulted |-> FALSE]
    ELSE IF sts[self].last_move.is_resign
      THEN [ret |-> sts[self].next_player, consulted |-> FALSE]
    ELSE [ret |-> game_result, consulted |-> TRUE]

\* ------------------------------------------------------------ Exhibitor
\* range(n) of Python: 0, 1, ..., n - 1
Range(n) == 0..(n - 1)

\* the points draw_stone asks the board about: row and col both run over
\* range(board_size), board_size being game.board.num_cols
QueriedPoints(board) == Range(board.num_cols) \X Range(board.num_cols)

\* draw_stone of Exhibitor.draw_game: the stones drawn, each at the row and
\* column of the point that was queried
draw_stone(board) ==
    {[row |-> p[1], col |-> p[2], faction |-> BoardGet(board, p)] :
        p \in {q \in QueriedPoints(board) : BoardGet(board, q) # "none"}}

\* ------------------------------------------ a board driven by place_stone
NoCall == [player |-> "none", point |-> NonePoint]

\* the state after construction: GameState.new_game, an empty Board, no
\* Move constructed yet
Init ==
    /\ boards = new_game(NumRows, NumCols).heap
    /\ states = <<new_game(NumRows, NumCols).state>>
    /\ game = 1
    /\ bd = NewBoard(DirectRows, DirectCols)
    /\ pre = NewBoard(DirectRows, DirectCols)
    /\ last_call = NoCall
    /\ made = <<>>
    /\ fatal = <<>>

\* one place_stone call whose preconditions hold
PlaceStoneCall ==
    /\ \E player \in Players, point \in PointsOf(bd), ord \in NeighborOrders :
          /\ is_on_grid(bd, point)
          /\ GridGet(bd, point) = NoneRef
          /\ bd' = PlaceStoneOrd(bd, player, point, ord)
          /\ pre' = bd
          /\ last_call' = [player |-> player, point |-> point]
    /\ UNCHANGED <<boards, states, game, made, fatal>>

SpecBoard ==
    /\ Init
    /\ [][PlaceStoneCall]_vars

\* ------------------------------------------------------ the driver loop
\* the moves a collaborator builds with Move.play, pass_turn and resign
CandidateMoves ==
    {MovePlay(p) : p \in PointsOf(boards[1])} \cup {MovePassTurn, MoveResign}

\* line 66: game = game.apply_move(move)
Publish(applied) ==
    /\ applied.err = "none"
    /\ boards' = applied.heap
    /\ states' = Append(states, applied.state)
    /\ game' = Len(states) + 1

\* the move is applied when is_valid_move accepted it
ApplyIfValid(move, valid) ==
    /\ valid.err = "none"
    /\ valid.ret
    /\ Publish(apply_move(valid.heap, states, game, move))

\* one turn of the loop of human_v_bot.main: the game is not over, the
\* collaborator's move is accepted by is_valid_move, apply_move is called
PlayMove ==
    /\ ~is_over(states, game)
    /\ Len(states) <= MaxMoves
    /\ \E move \in CandidateMoves :
          ApplyIfValid(move, is_valid_move(boards, states, game, move))
    /\ UNCHANGED <<bd, pre, last_call, made, fatal>>

\* legal_moves() called on any published GameState
CallLegalMoves ==
    /\ \E self \in DOMAIN states :
          boards' = legal_moves(boards, states, self).heap
    /\ UNCHANGED <<states, game, bd, pre, last_call, made, fatal>>

\* is_valid_move(move) called on any published GameState
CallIsValidMove ==
    /\ \E self \in DOMAIN states, move \in CandidateMoves :
          boards' = is_valid_move(boards, states, self, move).heap
    /\ UNCHANGED <<states, game, bd, pre, last_call, made, fatal>>

\* is_move_self_capture and does_move_violate_ko called directly, for
\* either player, with a move place_stone accepts
CallRuleChecks ==
    /\ \E self \in DOMAIN states, player \in Players, move \in CandidateMoves :
          /\ move.is_play => BoardGet(boards[states[self].board], move.point) = "none"
          /\ boards' = does_move_violate_ko(
                          is_move_self_capture(boards, states, self,
                                               player, move).heap,
                          states, self, player, move).heap
    /\ UNCHANGED <<states, game, bd, pre, last_call, made, fatal>>

\* apply_move(move) called on any published GameState, the returned
\* GameState not being kept
CallApplyMove ==
    /\ \E self \in DOMAIN states, move \in CandidateMoves :
          /\ move.is_play => BoardGet(boards[states[self].board], move.point) = "none"
          /\ boards' = Drop(apply_move(boards, states, self, move).heap,
                            Len(boards))
    /\ UNCHANGED <<states, game, bd, pre, last_call, made, fatal>>

Spec ==
    /\ Init
    /\ [][PlayMove]_vars

\* ------------------------------------------- a game played to its end
\* GameState.new_game on the board of the game played to its end
InitLive ==
    /\ boards = new_game(LiveRows, LiveCols).heap
    /\ states = <<new_game(LiveRows, LiveCols).state>>
    /\ game = 1
    /\ bd = NewBoard(DirectRows, DirectCols)
    /\ pre = NewBoard(DirectRows, DirectCols)
    /\ last_call = NoCall
    /\ made = <<>>
    /\ fatal = <<>>

\* one turn of the loop of human_v_bot.main, as PlayMove
PlayLive ==
    /\ ~is_over(states, game)
    /\ Len(states) <= MaxLive
    /\ \E move \in CandidateMoves :
          ApplyIfValid(move, is_valid_move(boards, states, game, move))
    /\ UNCHANGED <<bd, pre, last_call, made, fatal>>

\* the loop goes on while the game is not over
SpecLive ==
    /\ InitLive
    /\ [][PlayLive]_vars
    /\ WF_vars(PlayLive)

\* ------------------------------------------- apply_move without the check
\* apply_move called with any move place_stone accepts, whether or not
\* is_valid_move accepts it and whether or not the game is over
ApplyAny(depth) ==
    /\ Len(states) <= depth
    /\ \E move \in CandidateMoves :
          /\ move.is_play =>
                BoardGet(boards[states[game].board], move.point) = "none"
          /\ Publish(apply_move(boards, states, game, move))
    /\ UNCHANGED <<bd, pre, last_call, made, fatal>>

ApplyAnyMove == ApplyAny(MaxMoves)

SpecApply ==
    /\ Init
    /\ [][ApplyAnyMove]_vars

\* a short game whose published GameStates are queried between the moves
ApplyQueried == ApplyAny(MaxQueried)

NextCalls ==
    \/ ApplyQueried
    \/ CallLegalMoves
    \/ CallIsValidMove
    \/ CallRuleChecks
    \/ CallApplyMove

SpecCalls ==
    /\ Init
    /\ [][NextCalls]_vars

\* --------------------------------------------------- Move construction
\* a collaborator calls the constructor with arbitrary arguments; a failed
\* assertion is fatal
ConstructMove ==
    /\ fatal = <<>>
    /\ Len(made) < MaxMade
    /\ \E point \in PointsOf(boards[1]) \cup {NonePoint}, is_pass \in BOOLEAN,
          is_resign \in BOOLEAN :
          IF MoveInit(point, is_pass, is_resign).ok
            THEN /\ made' = Append(made, MoveInit(point, is_pass, is_resign).move)
                 /\ fatal' = fatal
            ELSE /\ made' = made
                 /\ fatal' = <<point, is_pass, is_resign>>
    /\ UNCHANGED <<boards, states, game, bd, pre, last_call>>

SpecMove ==
    /\ Init
    /\ [][ConstructMove]_vars

\* ------------------------------------------------- the rules of the game
\* The position of a board, and the outcome of a placement computed from
\* positions alone: groups by flood fill, liberties by looking at the
\* neighbouring points.
ColorMap(board) == [p \in PointsOf(board) |-> BoardGet(board, p)]

Adjacent(p, q) ==
    \/ p[1] = q[1] /\ (p[2] = q[2] + 1 \/ q[2] = p[2] + 1)
    \/ p[2] = q[2] /\ (p[1] = q[1] + 1 \/ q[1] = p[1] + 1)

\* the points of colour c connected to S through points of colour c
RECURSIVE Flood(_, _, _)
Flood(cm, c, S) ==
    LET T == S \cup {q \in DOMAIN cm : cm[q] = c /\ \E r \in S : Adjacent(q, r)}
    IN  IF T = S THEN S ELSE Flood(cm, c, T)

GroupOf(cm, p) == Flood(cm, cm[p], {p})

EmptyNeighbours(cm, S) ==
    {q \in DOMAIN cm : cm[q] = "none" /\ \E r \in S : Adjacent(q, r)}

\* the position with a stone of player added on the empty point p
WithStone(cm, player, p) == [cm EXCEPT ![p] = player]

\* the enemy stones adjacent groups of which are left without liberty
CapturedBy(cm, player, p) ==
    {q \in DOMAIN cm :
        /\ cm[q] = Other(player)
        /\ \E r \in GroupOf(WithStone(cm, player, p), q) : Adjacent(r, p)
        /\ EmptyNeighbours(WithStone(cm, player, p),
                           GroupOf(WithStone(cm, player, p), q)) = {}}

\* the position after player has played on the empty point p
PositionAfter(cm, player, p) ==
    [q \in DOMAIN cm |->
        IF q \in CapturedBy(cm, player, p) THEN "none"
        ELSE WithStone(cm, player, p)[q]]

\* the played stone's group is left without liberty
Suicide(cm, player, p) ==
    EmptyNeighbours(PositionAfter(cm, player, p),
                    GroupOf(PositionAfter(cm, player, p), p)) = {}

\* the GameState self and its ancestors along previous_state
RECURSIVE Chain(_, _)
Chain(sts, self) ==
    IF self = NoneRef THEN {}
    ELSE {self} \cup Chain(sts, sts[self].previous_state)

\* number of previous_state links from self up to its ancestor anc
RECURSIVE Distance(_, _, _)
Distance(sts, self, anc) ==
    IF self = anc THEN 0 ELSE 1 + Distance(sts, sts[self].previous_state, anc)

HeadBoard == boards[states[game].board]

EmptyPoints(board) == {p \in PointsOf(board) : BoardGet(board, p) = "none"}

\* playing p in the state self would repeat the situation of state anc
Repeats(self, p, anc) ==
    /\ states[anc].next_player = Other(states[self].next_player)
    /\ ColorMap(boards[states[anc].board]) =
          PositionAfter(ColorMap(boards[states[self].board]),
                        states[self].next_player, p)

\* ------------------------------------------------------------------ C1
\* C1: in a game of validated moves, is_valid_move rejects every Play whose
\* resulting situation (position after placement and captures, opponent to
\* move) is the situation of the current state or of any of its ancestors,
\* and no state produced by a Play repeats the situation of an ancestor.
C1_Superko ==
    /\ \A p \in EmptyPoints(HeadBoard) :
          (\E anc \in Chain(states, game) : Repeats(game, p, anc))
             => ~is_valid_move(boards, states, game, MovePlay(p)).ret
    /\ \A self \in DOMAIN states :
          states[self].last_move.is_play =>
             \A anc \in Chain(states, self) \ {self} :
                ~ /\ states[anc].next_player = states[self].next_player
                  /\ ColorMap(boards[states[anc].board]) =
                        ColorMap(boards[states[self].board])

\* a Play that is not a suicide is rejected only for repeating a situation
\* that lies three or more moves back, the game having gone on since
C1_Witness ==
    /\ ~is_over(states, game)
    /\ \E p \in EmptyPoints(HeadBoard) :
          /\ ~Suicide(ColorMap(HeadBoard), states[game].next_player, p)
          /\ ~is_valid_move(boards, states, game, MovePlay(p)).ret
          /\ \E anc \in Chain(states, game) :
                Repeats(game, p, anc) /\ Distance(states, game, anc) >= 3
          /\ \A anc \in Chain(states, game) :
                Repeats(game, p, anc) => Distance(states, game, anc) >= 3

\* ------------------------------------------------------------------ C3
\* C3: for every player and every Play on an empty point, the answer of
\* is_move_self_capture is true exactly when, after the placement and the
\* removal of the adjacent enemy groups left without liberty, the group of
\* the played stone has no empty neighbour; it is false for Pass, Resign.
C3_SelfCapture ==
    /\ \A player \in Players :
          /\ \A p \in EmptyPoints(HeadBoard) :
                is_move_self_capture(boards, states, game, player,
                                     MovePlay(p)).ret
                   = Suicide(ColorMap(HeadBoard), player, p)
          /\ ~is_move_self_capture(boards, states, game, player,
                                   MovePassTurn).ret
          /\ ~is_move_self_capture(boards, states, game, player,
                                   MoveResign).ret

\* a placement whose stone has no empty neighbour until its captures free
\* one, and which is_move_self_capture does not flag
C3_Witness ==
    \E player \in Players, p \in EmptyPoints(HeadBoard) :
        /\ CapturedBy(ColorMap(HeadBoard), player, p) # {}
        /\ EmptyNeighbours(WithStone(ColorMap(HeadBoard), player, p),
                           GroupOf(WithStone(ColorMap(HeadBoard), player, p), p))
              = {}
        /\ ~is_move_self_capture(boards, states, game, player, MovePlay(p)).ret

\* ------------------------------------------------------------------ C2
\* C2: after any sequence of place_stone calls on an empty board, every
\* occupied point maps to a live GoString that holds the point, every stone
\* of that GoString maps back to the same object, and two distinct objects
\* of the grid share no stone.
C2_GridConsistent ==
    /\ \A p \in DOMAIN bd.grid :
          /\ bd.grid[p] \in DOMAIN bd.strings
          /\ p \in bd.strings[bd.grid[p]].stones
          /\ \A q \in bd.strings[bd.grid[p]].stones :
                q \in DOMAIN bd.grid /\ bd.grid[q] = bd.grid[p]
    /\ \A p, q \in DOMAIN bd.grid :
          bd.grid[p] # bd.grid[q] =>
             bd.strings[bd.grid[p]].stones \cap bd.strings[bd.grid[q]].stones = {}

\* the last call joined two GoString objects and captured a group
C2_Witness ==
    /\ last_call.player # "none"
    /\ \E p, q \in DOMAIN pre.grid :
          /\ pre.grid[p] # pre.grid[q]
          /\ BoardGet(pre, p) = last_call.player
          /\ BoardGet(pre, q) = last_call.player
          /\ Adjacent(p, last_call.point)
          /\ Adjacent(q, last_call.point)
          /\ bd.grid[p] = bd.grid[q]
    /\ CapturedBy(ColorMap(pre), last_call.player, last_call.point) # {}

\* ------------------------------------------------------------------ C4
\* C4: when a placement takes the last liberty of adjacent enemy groups,
\* every point of those groups is empty afterwards, and every stone left
\* next to a vacated point belongs to a GoString that has the vacated
\* point among its liberties, whatever the order of the removals.
C4_Capture ==
    last_call.player # "none" =>
       \A v \in CapturedBy(ColorMap(pre), last_call.player, last_call.point) :
          /\ v \notin DOMAIN bd.grid
          /\ \A q \in DOMAIN bd.grid :
                Adjacent(q, v) => v \in bd.strings[bd.grid[q]].liberties

\* the last call captured two groups at once, and a stone of a GoString
\* other than the played one touches a vacated point
C4_Witness ==
    /\ last_call.player # "none"
    /\ \E v, w \in CapturedBy(ColorMap(pre), last_call.player, last_call.point) :
          /\ w \notin GroupOf(ColorMap(pre), v)
          /\ \E q \in DOMAIN bd.grid :
                /\ Adjacent(q, v)
                /\ bd.grid[q] # bd.grid[last_call.point]
                /\ v \in bd.strings[bd.grid[q]].liberties

\* ------------------------------------------------------------------ C5
\* C5: every move legal_moves() returns, Pass and Resign included, is
\* accepted by is_valid_move on the same state.
C5_LegalMovesAreValid ==
    \A i \in DOMAIN legal_moves(boards, states, game).ret :
        is_valid_move(boards, states, game,
                      legal_moves(boards, states, game).ret[i]).ret

\* ------------------------------------------------------------------ C6
\* C6: a Move is constructed only with exactly one of point, is_pass and
\* is_resign set, and the construction is fatal in every other case.
TagsSet(point, is_pass, is_resign) ==
    (IF point # NonePoint THEN 1 ELSE 0) + (IF is_pass THEN 1 ELSE 0)
       + (IF is_resign THEN 1 ELSE 0)

C6_ExactlyOneTag ==
    /\ \A i \in DOMAIN made :
          TagsSet(made[i].point, made[i].is_pass, made[i].is_resign) = 1
    /\ fatal # <<>> => TagsSet(fatal[1], fatal[2], fatal[3]) # 1

\* ------------------------------------------------------------------ C7
\* C7: is_over() is false without a last move, true after Resign, true
\* when the last move and the one before it are both Pass, and false in
\* every other case.
MovesPlayed == [i \in 1..(Len(states) - 1) |-> states[i + 1].last_move]

C7_IsOver ==
    is_over(states, game) =
       IF MovesPlayed = <<>> THEN FALSE
       ELSE IF MovesPlayed[Len(MovesPlayed)].is_resign THEN TRUE
       ELSE /\ Len(MovesPlayed) >= 2
            /\ MovesPlayed[Len(MovesPlayed)].is_pass
            /\ MovesPlayed[Len(MovesPlayed) - 1].is_pass

\* a game whose first and only move is a Pass is not over
C7_Witness ==
    /\ Len(MovesPlayed) = 1
    /\ MovesPlayed[1].is_pass
    /\ ~is_over(states, game)

\* ------------------------------------------------------------------ C8
\* C8: legal_moves() holds Pass and Resign; it holds Play(p) for no point
\* that is occupied, a suicide or a repetition of an earlier situation; and
\* while the game is not over it holds Play(p) for every other point.
AsSet(list) == {list[i] : i \in DOMAIN list}

Playable(p) ==
    /\ BoardGet(HeadBoard, p) = "none"
    /\ ~Suicide(ColorMap(HeadBoard), states[game].next_player, p)
    /\ \A anc \in Chain(states, game) : ~Repeats(game, p, anc)

C8_LegalMoves ==
    LET legal == AsSet(legal_moves(boards, states, game).ret)
    IN  /\ MovePassTurn \in legal
        /\ MoveResign \in legal
        /\ \A p \in PointsOf(HeadBoard) :
              /\ MovePlay(p) \in legal => Playable(p)
              /\ (~is_over(states, game) /\ Playable(p)) => MovePlay(p) \in legal

\* the game is not over and the board has an occupied point and a point
\* barred by ko alone, neither of which is listed
C8_Witness ==
    LET legal == AsSet(legal_moves(boards, states, game).ret)
    IN  /\ ~is_over(states, game)
        /\ \E p \in PointsOf(HeadBoard) :
              BoardGet(HeadBoard, p) # "none" /\ MovePlay(p) \notin legal
        /\ \E p \in EmptyPoints(HeadBoard) :
              /\ ~Suicide(ColorMap(HeadBoard), states[game].next_player, p)
              /\ \E anc \in Chain(states, game) : Repeats(game, p, anc)
              /\ MovePlay(p) \notin legal

\* ------------------------------------------------------------------ C9
\* C9: no call of apply_move, is_valid_move, is_move_self_capture,
\* does_move_violate_ko or legal_moves changes a published GameState or
\* a Board a published GameState refers to.
C9_Published ==
    [][/\ \A b \in DOMAIN boards :
             b \in DOMAIN boards' /\ boards'[b] = boards[b]
       /\ \A s \in DOMAIN states :
             s \in DOMAIN states' /\ states'[s] = states[s]]_vars

\* a state made by Pass shares its parent's Board object and has been
\* extended by a Play
C9_Witness ==
    \E s \in DOMAIN states, t \in DOMAIN states :
        /\ states[s].last_move.is_pass
        /\ states[s].board = states[states[s].previous_state].board
        /\ states[t].previous_state = s
        /\ states[t].last_move.is_play
        /\ boards[states[t].board] # boards[states[s].board]

\* ----------------------------------------------------------------- C10
\* C10: in a game of validated moves is_valid_move and legal_moves return
\* for every Play on the grid; neither assertion of place_stone fails and
\* remove_liberty always finds the point it removes.
C10_NoFatal ==
    /\ \A p \in PointsOf(HeadBoard) :
          is_valid_move(boards, states, game, MovePlay(p)).err = "none"
    /\ legal_moves(boards, states, game).err = "none"

\* the game is not over and is_valid_move is asked about an occupied
\* point and about a suicide next to enemy stones
C10_Witness ==
    /\ ~is_over(states, game)
    /\ \E p \in PointsOf(HeadBoard) :
          /\ BoardGet(HeadBoard, p) # "none"
          /\ ~is_valid_move(boards, states, game, MovePlay(p)).ret
    /\ \E p \in EmptyPoints(HeadBoard) :
          /\ Suicide(ColorMap(HeadBoard), states[game].next_player, p)
          /\ ~is_valid_move(boards, states, game, MovePlay(p)).ret
          /\ \E q \in PointsOf(HeadBoard) :
                /\ Adjacent(p, q)
                /\ BoardGet(HeadBoard, q) = Other(states[game].next_player)

\* ----------------------------------------------------------------- C11
\* C11: winner() returns None exactly when is_over() is false; after a
\* Resign it returns the terminal state's next_player, the opponent of the
\* player who was to move when Resign was applied, without calling the
\* scoring collaborator; the collaborator is called exactly when the last
\* two moves are Passes, and its winner is returned.
C11_Winner ==
    \A game_result \in Players :
       /\ (winner(states, game, game_result).ret = "none")
             = ~is_over(states, game)
       /\ (MovesPlayed # <<>> /\ MovesPlayed[Len(MovesPlayed)].is_resign) =>
             /\ winner(states, game, game_result).ret
                   = states[game].next_player
             /\ winner(states, game, game_result).ret
                   = Other(states[states[game].previous_state].next_player)
             /\ ~winner(states, game, game_result).consulted
       /\ winner(states, game, game_result).consulted
             = /\ Len(MovesPlayed) >= 2
               /\ MovesPlayed[Len(MovesPlayed)].is_pass
               /\ MovesPlayed[Len(MovesPlayed) - 1].is_pass
       /\ winner(states, game, game_result).consulted =>
             winner(states, game, game_result).ret = game_result

\* White resigns a game in which stones were played: black is the winner
\* whatever the scoring collaborator would say
C11_Witness ==
    /\ Len(MovesPlayed) >= 3
    /\ MovesPlayed[Len(MovesPlayed)].is_resign
    /\ MovesPlayed[1].is_play
    /\ states[states[game].previous_state].next_player = "white"
    /\ ~is_over(states, states[game].previous_state)
    /\ winner(states, game, "white").ret = "black"

\* ----------------------------------------------------------------- C12
\* C12: on the board of every state of a game of validated moves, the
\* GoString of every occupied point has at least one liberty and its
\* group has an empty neighbour; the enemy groups a Play left without
\* liberty are empty points in the state it produced; and is_valid_move
\* accepts no Play that leaves the mover's own group without liberty.
C12_NoDeadGroup ==
    /\ \A self \in DOMAIN states :
          /\ \A p \in DOMAIN boards[states[self].board].grid :
                /\ num_liberties(boards[states[self].board].strings[
                                    boards[states[self].board].grid[p]]) > 0
                /\ EmptyNeighbours(ColorMap(boards[states[self].board]),
                                   GroupOf(ColorMap(boards[states[self].board]), p))
                      # {}
          /\ states[self].last_move.is_play =>
                \A v \in CapturedBy(
                            ColorMap(boards[states[states[self].previous_state].board]),
                            states[states[self].previous_state].next_player,
                            states[self].last_move.point) :
                   BoardGet(boards[states[self].board], v) = "none"
    /\ \A p \in EmptyPoints(HeadBoard) :
          Suicide(ColorMap(HeadBoard), states[game].next_player, p)
             => ~is_valid_move(boards, states, game, MovePlay(p)).ret

\* the last move was a Play that captured, and the side to move now has a
\* point where its stone would be left without liberty
C12_Witness ==
    /\ states[game].last_move.is_play
    /\ CapturedBy(ColorMap(boards[states[states[game].previous_state].board]),
                  states[states[game].previous_state].next_player,
                  states[game].last_move.point) # {}
    /\ \E p \in EmptyPoints(HeadBoard) :
          /\ Suicide(ColorMap(HeadBoard), states[game].next_player, p)
          /\ ~is_valid_move(boards, states, game, MovePlay(p)).ret

\* ----------------------------------------------------------------- C13
\* C13: for a singleton GoString on any empty point and any set of
\* GoStrings of its colour, folding merged_with over the set in any order
\* gives the union of all stones as stones and the union of all liberties
\* minus the union of all stones as liberties, and the liberties of the
\* result do not meet its stones.
LiveStrings(board, player) ==
    {board.grid[p] : p \in {q \in DOMAIN board.grid :
                               board.strings[board.grid[q]].color = player}}

\* the sequences that list every element of T once
Orderings(T) ==
    {f \in [1..Cardinality(T) -> T] :
        \A i, j \in 1..Cardinality(T) : i # j => f[i] # f[j]}

Singleton(board, player, q) ==
    GoString(player, {q}, EmptyNeighbours(ColorMap(board), {q}))

AllStones(board, T) == UNION {board.strings[g].stones : g \in T}

AllLiberties(board, T) == UNION {board.strings[g].liberties : g \in T}

C13_MergeAnyOrder ==
    \A player \in Players, q \in EmptyPoints(bd) :
       \A T \in SUBSET LiveStrings(bd, player) :
          \A same \in Orderings(T) :
             /\ MergeAll(bd, Singleton(bd, player, q), same, 1).stones
                   = {q} \cup AllStones(bd, T)
             /\ MergeAll(bd, Singleton(bd, player, q), same, 1).liberties
                   = (Singleton(bd, player, q).liberties \cup AllLiberties(bd, T))
                        \ ({q} \cup AllStones(bd, T))
             /\ MergeAll(bd, Singleton(bd, player, q), same, 1).liberties
                   \cap MergeAll(bd, Singleton(bd, player, q), same, 1).stones
                   = {}

\* the last call joined three GoString objects that had the played point
\* among their liberties
C13_Witness ==
    /\ last_call.player # "none"
    /\ \E a, b, c \in LiveStrings(pre, last_call.player) :
          /\ a # b /\ a # c /\ b # c
          /\ last_call.point \in pre.strings[a].liberties
          /\ last_call.point \in pre.strings[b].liberties
          /\ last_call.point \in pre.strings[c].liberties
          /\ bd.strings[bd.grid[last_call.point]].stones
                = {last_call.point} \cup AllStones(pre, {a, b, c})

\* ----------------------------------------------------------------- C14
\* C14: after any sequence of place_stone calls whose preconditions hold,
\* no call has raised and the liberties of every GoString of the grid are
\* exactly the empty on-grid points next to one of its stones.
C14_LibertiesExact ==
    /\ bd.err = "none"
    /\ \A p \in DOMAIN bd.grid :
          bd.strings[bd.grid[p]].liberties
             = EmptyNeighbours(ColorMap(bd), bd.strings[bd.grid[p]].stones)

\* the last call merged a friendly group, took a liberty from an enemy
\* group that stays on the board, and captured another enemy group, whose
\* point is now a liberty of the merged group
C14_Witness ==
    /\ last_call.player # "none"
    /\ \E f \in DOMAIN pre.grid :
          /\ Adjacent(f, last_call.point)
          /\ BoardGet(pre, f) = last_call.player
          /\ Cardinality(pre.strings[pre.grid[f]].stones) > 1
    /\ \E e \in DOMAIN bd.grid :
          /\ Adjacent(e, last_call.point)
          /\ BoardGet(bd, e) = Other(last_call.player)
          /\ bd.strings[bd.grid[e]].liberties
                = pre.strings[pre.grid[e]].liberties \ {last_call.point}
          /\ last_call.point \in pre.strings[pre.grid[e]].liberties
    /\ \E v \in CapturedBy(ColorMap(pre), last_call.player, last_call.point) :
          v \in bd.strings[bd.grid[last_call.point]].liberties

\* ----------------------------------------------------------------- C15
\* The friendly GoStrings next to the played point before the call, the
\* stones of the group the call builds from them, and the liberties that
\* group inherits: the empty neighbours of the played point and the
\* liberties of the merged strings, minus the stones of the group.
MergedFriends ==
    {pre.grid[f] : f \in {q \in DOMAIN pre.grid :
                             /\ Adjacent(q, last_call.point)
                             /\ BoardGet(pre, q) = last_call.player}}

MergedStones == {last_call.point} \cup AllStones(pre, MergedFriends)

InheritedLiberties ==
    (EmptyNeighbours(ColorMap(pre), {last_call.point})
        \cup AllLiberties(pre, MergedFriends)) \ MergedStones

\* the points the call vacated that touch a stone of the placed group
VacatedNextToPlaced ==
    {v \in CapturedBy(ColorMap(pre), last_call.player, last_call.point) :
        \E r \in MergedStones : Adjacent(v, r)}

\* C15 as stated: after every place_stone call, capturing or not, the
\* liberties of the group covering the played point are the inherited
\* liberties.
C15_PlacedLiberties ==
    last_call.player # "none" =>
       bd.strings[bd.grid[last_call.point]].liberties = InheritedLiberties

\* C15 amended: after every place_stone call the liberties of the group
\* covering the played point are the inherited liberties together with
\* the points of the captured groups that touch a stone of the group; they
\* are the inherited liberties alone when nothing next to it is captured.
C15_PlacedLibertiesAndVacated ==
    last_call.player # "none" =>
       /\ bd.strings[bd.grid[last_call.point]].stones = MergedStones
       /\ bd.strings[bd.grid[last_call.point]].liberties
             = InheritedLiberties \cup VacatedNextToPlaced
       /\ VacatedNextToPlaced \cap InheritedLiberties = {}

\* the last call merged a friendly group and captured an enemy group, and
\* the placed group holds a vacated point beyond its inherited liberties
C15_Witness ==
    /\ last_call.player # "none"
    /\ MergedFriends # {}
    /\ VacatedNextToPlaced # {}
    /\ InheritedLiberties # {}
    /\ bd.strings[bd.grid[last_call.point]].liberties # InheritedLiberties

\* ----------------------------------------------------------------- C16
\* C16: after any sequence of place_stone calls whose preconditions hold,
\* the stones of the GoString of every occupied point are exactly the
\* points reached from it through adjacent stones of its colour, and two
\* adjacent stones of one colour map to the same GoString object.
C16_MaximalGroups ==
    /\ \A p \in DOMAIN bd.grid :
          bd.strings[bd.grid[p]].stones = GroupOf(ColorMap(bd), p)
    /\ \A p, q \in DOMAIN bd.grid :
          (Adjacent(p, q) /\ BoardGet(bd, p) = BoardGet(bd, q))
             => bd.grid[p] = bd.grid[q]

\* the last call joined two GoString objects into a group of four or more
\* stones, next to a stone of the other colour
C16_Witness ==
    /\ last_call.player # "none"
    /\ Cardinality(MergedFriends) >= 2
    /\ Cardinality(bd.strings[bd.grid[last_call.point]].stones) >= 4
    /\ \E e \in DOMAIN bd.grid :
          /\ BoardGet(bd, e) = Other(last_call.player)
          /\ \E r \in bd.strings[bd.grid[last_call.point]].stones :
                Adjacent(e, r)

\* ----------------------------------------------------------------- C17
\* The neighbour loop with an identity test in place of "not in": a
\* GoString is appended unless the same object is already in the list.
RECURSIVE ScanById(_, _, _, _, _, _)
ScanById(board, player, point, ord, i, acc) ==
    IF i > 4 THEN acc
    ELSE
      LET neighbor == Neighbors(point)[ord[i]]
          g == GridGet(board, neighbor)
          next ==
            IF ~is_on_grid(board, neighbor) THEN acc
            ELSE IF g = NoneRef
              THEN [acc EXCEPT !.liberties = @ \cup {neighbor}]
            ELSE IF board.strings[g].color = player
              THEN IF \E k \in 1..Len(acc.same) : acc.same[k] = g THEN acc
                   ELSE [acc EXCEPT !.same = Append(@, g)]
            ELSE IF \E k \in 1..Len(acc.opp) : acc.opp[k] = g THEN acc
                 ELSE [acc EXCEPT !.opp = Append(@, g)]
      IN  ScanById(board, player, point, ord, i + 1, next)

NothingScanned == [liberties |-> {}, same |-> <<>>, opp |-> <<>>]

\* the GoString objects of colour c on the neighbours of point
AdjacentStrings(board, point, c) ==
    {board.grid[q] : q \in {r \in DOMAIN board.grid :
                               Adjacent(r, point) /\ BoardGet(board, r) = c}}

NoRepeat(list) == \A i, j \in 1..Len(list) : i # j => list[i] # list[j]

\* C17: on every board reached by place_stone calls, for every player,
\* empty point and order of the neighbours, the lists the neighbour loop
\* collects with "not in" (identity or __eq__) are the lists an identity
\* test collects: each adjacent GoString object once, none left out; and
\* after the last call every adjacent enemy GoString left on the board
\* has lost the played point and nothing else, no removal having raised.
C17_DedupByIdentity ==
    /\ \A player \in Players, q \in EmptyPoints(bd), ord \in NeighborOrders :
          LET scanned == ScanNeighbors(bd, player, q, ord, 1, NothingScanned)
          IN  /\ scanned = ScanById(bd, player, q, ord, 1, NothingScanned)
              /\ NoRepeat(scanned.same)
              /\ NoRepeat(scanned.opp)
              /\ AsSet(scanned.same) = AdjacentStrings(bd, q, player)
              /\ AsSet(scanned.opp) = AdjacentStrings(bd, q, Other(player))
    /\ bd.err = "none"
    /\ last_call.player # "none" =>
          \A e \in DOMAIN bd.grid :
             (Adjacent(e, last_call.point)
                /\ BoardGet(bd, e) = Other(last_call.player))
             => /\ bd.grid[e] = pre.grid[e]
                /\ last_call.point \in pre.strings[pre.grid[e]].liberties
                /\ bd.strings[bd.grid[e]].liberties
                      = pre.strings[pre.grid[e]].liberties \ {last_call.point}

\* the last call was made next to two distinct enemy GoStrings, one of
\* which touched the played point from two sides and stays on the board
C17_Witness ==
    /\ last_call.player # "none"
    /\ Cardinality(AdjacentStrings(pre, last_call.point,
                                    Other(last_call.player))) >= 2
    /\ \E e1, e2 \in DOMAIN bd.grid :
          /\ e1 # e2
          /\ Adjacent(e1, last_call.point)
          /\ Adjacent(e2, last_call.point)
          /\ BoardGet(bd, e1) = Other(last_call.player)
          /\ pre.grid[e1] = pre.grid[e2]
          /\ Cardinality(bd.strings[bd.grid[e1]].liberties)
                = Cardinality(pre.strings[pre.grid[e1]].liberties) - 1

\* ----------------------------------------------------------------- C18
\* C18: every run of the driver loop, which applies only moves accepted by
\* is_valid_move and goes on while is_over() is false, reaches a state
\* where is_over() is true.
C18_Terminates == <>is_over(states, game)

\* a game of ten or more moves ended by two Passes, in the course of which
\* a Play that was no suicide was barred for repeating a situation
C18_Witness ==
    /\ is_over(states, game)
    /\ Len(MovesPlayed) >= 10
    /\ MovesPlayed[Len(MovesPlayed)].is_pass
    /\ \E self \in DOMAIN states :
          \E p \in EmptyPoints(boards[states[self].board]) :
             /\ ~Suicide(ColorMap(boards[states[self].board]),
                         states[self].next_player, p)
             /\ \E anc \in Chain(states, self) : Repeats(self, p, anc)
             /\ ~is_valid_move(boards, states, self, MovePlay(p)).ret

\* ----------------------------------------------------------------- C19
\* the points the last call vacated
Vacated == CapturedBy(ColorMap(pre), last_call.player, last_call.point)

\* the GoString of q before the call has no stone on or next to the
\* played point and none on or next to a vacated point
Untouched(q) ==
    \A r \in pre.strings[pre.grid[q]].stones :
       /\ r # last_call.point
       /\ ~Adjacent(r, last_call.point)
       /\ \A v \in Vacated : r # v /\ ~Adjacent(r, v)

\* C19: a place_stone call makes the played point the player's colour,
\* empties the points of the adjacent enemy groups left without liberty,
\* and leaves the occupant of every other point as it was; it removes no
\* stone of the player's colour, the placed group included when it has no
\* liberty; and a group with no stone next to the played point or to a
\* vacated point keeps its GoString object, stones and liberties.
C19_PlaceStoneFrame ==
    last_call.player # "none" =>
       /\ BoardGet(bd, last_call.point) = last_call.player
       /\ \A q \in PointsOf(bd) \ {last_call.point} :
             BoardGet(bd, q) = IF q \in Vacated THEN "none" ELSE BoardGet(pre, q)
       /\ \A v \in Vacated : BoardGet(pre, v) = Other(last_call.player)
       /\ \A q \in DOMAIN pre.grid :
             BoardGet(pre, q) = last_call.player
                => BoardGet(bd, q) = last_call.player
       /\ \A r \in bd.strings[bd.grid[last_call.point]].stones :
             BoardGet(bd, r) = last_call.player
       /\ \A q \in DOMAIN pre.grid :
             Untouched(q) =>
                /\ q \in DOMAIN bd.grid
                /\ bd.grid[q] = pre.grid[q]
                /\ bd.strings[bd.grid[q]] = pre.strings[pre.grid[q]]

\* the last call captured an enemy group, left another adjacent enemy
\* group on the board, and kept a group of the player's colour that had no
\* liberty before the call
C19_Witness ==
    /\ last_call.player # "none"
    /\ Vacated # {}
    /\ \E e \in DOMAIN bd.grid :
          /\ Adjacent(e, last_call.point)
          /\ BoardGet(bd, e) = Other(last_call.player)
    /\ \E q \in DOMAIN pre.grid :
          /\ BoardGet(pre, q) = last_call.player
          /\ pre.strings[pre.grid[q]].liberties = {}
          /\ q \in DOMAIN bd.grid

\* ----------------------------------------------------------------- C20
\* C20: when the driver displays the game, draw_game queries board.get at
\* every occupied point of the board and draws there a stone of the
\* colour that occupies it, the last row and the last column included.
C20_DrawsPosition ==
    ~is_over(states, game) =>
       \A p \in PointsOf(HeadBoard) :
          BoardGet(HeadBoard, p) # "none" =>
             /\ p \in QueriedPoints(HeadBoard)
             /\ [row |-> p[1], col |-> p[2],
                  faction |-> BoardGet(HeadBoard, p)] \in draw_stone(HeadBoard)

====
